---- MODULE Spec2Model ----
(***************************************************************************)
(* Turn-generation pipeline of the AI Adventure Engine:                    *)
(*   src/src/services/aiService.ts        (AIService)                      *)
(*   src/src/components/GameInterface.tsx (GameInterface)                  *)
(*   src/unnamed/part_000                 (AIConfig)                       *)
(*                                                                         *)
(* JavaScript values that may be of several types (a parsed JSON field, a  *)
(* choice text, a story) are tagged records; a string known to be a string *)
(* (a topic, a transcript line built by a template literal) is a TLA+      *)
(* string.  A backend text is a sequence of tokens: prose, "{", "}" and    *)
(* the inside of a JSON object.                                            *)
(***************************************************************************)
EXTENDS Integers, Sequences, FiniteSets, TLC

----------------------------------------------------------------------------
(* Bounds of the model *)

\* user-initiated events (clicks, submits, prompts) in one behaviour of Spec
MaxEvents == 2
\* user-initiated events in one behaviour of SpecHistory
MaxHistoryEvents == 14
\* how many entries of the fallback pool the random pick may draw in Spec
MaxPick == 2
\* the longest array of choices a parsed payload carries when the normalizer
\* is taken alone
MaxChoices == 5

----------------------------------------------------------------------------
(* Program constants *)

HistoryKeep == 10
ContextEntries == 2
StoryLimit == 400
StoryCut == 380
NumChoices == 4
ChoiceLimit == 35
ChoiceCut == 32
PoolSize == 5

----------------------------------------------------------------------------
(* JavaScript values *)

Undef == [t |-> "undef"]
Null == [t |-> "null"]
Str(s) == [t |-> "str", s |-> s]
Num(n) == [t |-> "num", n |-> n]
Arr(a) == [t |-> "arr", a |-> a]
Obj(id, text) == [t |-> "obj", id |-> id, text |-> text]

\* JavaScript truthiness: undefined, null, "" and 0 are falsy
Truthy(v) ==
  CASE v.t = "undef" -> FALSE
    [] v.t = "null" -> FALSE
    [] v.t = "str" -> v.s # ""
    [] v.t = "num" -> v.n # 0
    [] OTHER -> TRUE

\* String(v), as a template literal `${v}` formats it
ToStr(v) ==
  CASE v.t = "str" -> v.s
    [] v.t = "num" -> ToString(v.n)
    [] v.t = "undef" -> "undefined"
    [] v.t = "null" -> "null"
    [] OTHER -> "[object Object]"

\* v.length: defined for strings and arrays, undefined otherwise, and
\* `undefined > n` is false; -1 stands for undefined
LengthOf(v) ==
  CASE v.t = "str" -> Len(v.s)
    [] v.t = "arr" -> Len(v.a)
    [] OTHER -> -1

\* s.includes(pat) for strings
Includes(s, pat) ==
  \E i \in 1..(Len(s) - Len(pat) + 1) : SubSeq(s, i, i + Len(pat) - 1) = pat

\* s.substring(0, n)
Substring(s, n) == SubSeq(s, 1, IF n < Len(s) THEN n ELSE Len(s))

IsSpace(c) == c \in {" ", "\n", "\t"}

\* s.trim()
RECURSIVE TrimLeft(_)
TrimLeft(s) ==
  IF s # "" /\ IsSpace(SubSeq(s, 1, 1)) THEN TrimLeft(SubSeq(s, 2, Len(s))) ELSE s

RECURSIVE TrimRight(_)
TrimRight(s) ==
  IF s # "" /\ IsSpace(SubSeq(s, Len(s), Len(s)))
  THEN TrimRight(SubSeq(s, 1, Len(s) - 1)) ELSE s

Trim(s) == TrimRight(TrimLeft(s))

----------------------------------------------------------------------------
(* Backend texts *)

Prose(s) == [k |-> "prose", s |-> s]
LBrace == [k |-> "lbrace"]
RBrace == [k |-> "rbrace"]
\* the inside of a JSON object with the given story and choices fields
Fields(story, choices) == [k |-> "fields", story |-> story, choices |-> choices]

Choice(id, text) == [id |-> id, text |-> text]

\* the text of a JSON object {"story": ..., "choices": [...]}
JsonText(story, choices) == <<LBrace, Fields(story, choices), RBrace>>

Positions(text, tok) == {i \in 1..Len(text) : text[i] = tok}

Min(S) == CHOOSE m \in S : \A n \in S : m <= n
Max(S) == CHOOSE m \in S : \A n \in S : m >= n

\* text.match(/\{[\s\S]*\}/): greedy, from the first "{" to the last "}";
\* <<>> when there is no match
JsonMatch(text) ==
  LET opens == Positions(text, LBrace)
      closes == Positions(text, RBrace)
  IN IF opens # {} /\ closes # {} /\ Min(opens) < Max(closes)
     THEN SubSeq(text, Min(opens), Max(closes))
     ELSE <<>>

\* JSON.parse(jsonStr) succeeds on exactly one object
Parses(jsonStr) ==
  /\ Len(jsonStr) = 3
  /\ jsonStr[1] = LBrace
  /\ jsonStr[2].k = "fields"
  /\ jsonStr[3] = RBrace

JsonParse(jsonStr) == [story |-> jsonStr[2].story, choices |-> jsonStr[2].choices]

----------------------------------------------------------------------------
(* AIService: the fallback pool *)

FallbackStories ==
  << "Static fills the air. You stand at a digital crossroads where three paths converge. Each route pulses with different energy.",
     "Connection unstable. Reality flickers around you like a broken screen. Through the static, you glimpse movement ahead.",
     "Demo mode active. You find yourself in a liminal space between worlds. Shadows dance at the periphery of vision.",
     "The narrative engine stutters. You're caught between story beats, suspended in potential. What happens next depends on you.",
     "Connection lost. In this void, you sense opportunity hiding in the darkness. Your next choice will shape everything." >>

FallbackChoiceTexts ==
  << <<"Take the glowing path", "Follow the dark route", "Choose the middle way", "Step back and observe">>,
     <<"Move toward the movement", "Wait for static to clear", "Touch the flickering air", "Call out loudly">>,
     <<"Approach the shadows", "Stand perfectly still", "Search for light", "Listen carefully">>,
     <<"Force the story forward", "Embrace the uncertainty", "Look for an exit", "Reset everything">>,
     <<"Reach into the darkness", "Create your own light", "Wait for revelation", "Embrace the void">> >>

\* getFallbackResponse(): fallbacks[Math.floor(Math.random() * fallbacks.length)],
\* with the random index given as pick
GetFallbackResponse(pick) ==
  JsonText(Str(FallbackStories[pick]),
           Arr([i \in 1..NumChoices |->
                  Obj(Str(ToString(i)), Str(FallbackChoiceTexts[pick][i]))]))

----------------------------------------------------------------------------
(* AIService.makeAPIRequest *)

\* What fetch and the backend can do with one request
NetworkError == [net |-> "error"]
HttpStatus(code) == [net |-> "status", code |-> code]
NoTextField == [net |-> "ok", text |-> Undef]
Reply(text) == [net |-> "ok", text |-> Arr(text)]

\* the request fails: fetch rejects, !response.ok, or
\* !data.candidates?.[0]?.content?.parts?.[0]?.text
RequestFails(outcome) ==
  CASE outcome.net = "error" -> TRUE
    [] outcome.net = "status" -> TRUE
    [] OTHER -> outcome.text.t = "undef" \/ outcome.text.a = <<>>

\* the text makeAPIRequest returns: the catch block turns every failure
\* into a text of the fallback pool
MakeAPIRequest(outcome, pick) ==
  IF RequestFails(outcome) THEN GetFallbackResponse(pick) ELSE outcome.text.a

----------------------------------------------------------------------------
(* AIService.generateStoryResponse: parse, validate, repair *)

DefaultChoices == <<"Continue forward", "Look around", "Wait and listen", "Go back">>

\* while (choices.length < 4) choices.push({id, text})
RECURSIVE PadChoices(_)
PadChoices(a) ==
  IF Len(a) < NumChoices
  THEN PadChoices(Append(a, Obj(Str(ToString(Len(a) + 1)),
                                Str(DefaultChoices[Len(a) + 1]))))
  ELSE a

\* the choices left as the backend sent them
ChoicesAsSent(a) == a

\* if (choices.length !== 4) { pad; choices = choices.slice(0, 4) }
FourChoices(a) ==
  IF Len(a) # NumChoices THEN SubSeq(PadChoices(a), 1, NumChoices) ELSE a

\* reading choice.text of null or undefined is a TypeError
ChoiceThrows(c) == c.t \in {"null", "undef"}

\* reading a property of a primitive or of an object that lacks it: undefined
FieldText(c) == IF c.t = "obj" THEN c.text ELSE Undef
FieldId(c) == IF c.t = "obj" THEN c.id ELSE Undef

\* the callback reading a field the choices do not have
ValidChoiceNoText(c, index) ==
  Choice(IF Truthy(FieldId(c)) THEN FieldId(c) ELSE Str(ToString(index)),
         Str("Option " \o ToString(index)))

\* the callback of choices.map
ValidChoice(c, index) ==
  LET choiceText == IF Truthy(FieldText(c)) THEN FieldText(c)
                    ELSE Str("Option " \o ToString(index))
      limited == IF LengthOf(choiceText) > ChoiceLimit
                 THEN Str(Substring(choiceText.s, ChoiceCut) \o "...")
                 ELSE choiceText
  IN Choice(IF Truthy(FieldId(c)) THEN FieldId(c) ELSE Str(ToString(index)),
            limited)

\* story.substring / choiceText.substring exists on strings only
SubstringThrows(v, limit) == LengthOf(v) > limit /\ v.t # "str"

LimitStory(story) ==
  IF LengthOf(story) > StoryLimit
  THEN Str(Substring(story.s, StoryCut) \o "...")
  ELSE story

\* JSON.parse(fallback), returned as it is
ParsedFallback(pick) ==
  LET parsed == JsonParse(JsonMatch(GetFallbackResponse(pick)))
  IN [story |-> parsed.story,
      choices |-> [i \in 1..Len(parsed.choices.a) |->
                     Choice(parsed.choices.a[i].id, parsed.choices.a[i].text)]]

\* does the try block of generateStoryResponse throw on this text
NormalizeThrows(response) ==
  LET jsonMatch == JsonMatch(response)
  IN \/ jsonMatch = <<>>
     \/ ~Parses(jsonMatch)
     \/ LET parsed == JsonParse(jsonMatch)
        IN \/ ~Truthy(parsed.story)
           \/ parsed.choices.t # "arr"
           \/ SubstringThrows(parsed.story, StoryLimit)
           \/ \E i \in 1..Len(FourChoices(parsed.choices.a)) :
                \/ ChoiceThrows(FourChoices(parsed.choices.a)[i])
                \/ SubstringThrows(FieldText(FourChoices(parsed.choices.a)[i]),
                                   ChoiceLimit)

\* the value the try block returns when it does not throw
Normalize(response) ==
  LET parsed == JsonParse(JsonMatch(response))
      four == FourChoices(parsed.choices.a)
  IN [story |-> LimitStory(parsed.story),
      choices |-> [i \in 1..Len(four) |-> ValidChoice(four[i], i)]]

\* AIService.generateStoryResponse after the request: outcome is what the
\* backend did, pick the random index a fallback would use
StoryResponse(outcome, pick) ==
  LET response == MakeAPIRequest(outcome, pick)
  IN IF NormalizeThrows(response) THEN ParsedFallback(pick) ELSE Normalize(response)

\* AIService.testConnection after the request
TestConnectionResult(outcome, pick) ==
  LET response == MakeAPIRequest(outcome, pick)
      jsonMatch == JsonMatch(response)
  IN IF jsonMatch = <<>> \/ ~Parses(jsonMatch) THEN FALSE
     ELSE LET parsed == JsonParse(jsonMatch)
          IN /\ Truthy(parsed.story)
             /\ Truthy(parsed.choices)
             /\ LengthOf(parsed.choices) = NumChoices

----------------------------------------------------------------------------
(* AIService: configuration and prompt *)

UnsetKey == "YOUR_GOOGLE_AI_STUDIO_API_KEY_HERE"
BaseUrl == "https://generativelanguage.googleapis.com/v1beta/models"

\* getApiKeyStatus()
GetApiKeyStatus(cfg) ==
  IF cfg.apiKey = "" \/ cfg.apiKey = UnsetKey THEN "invalid" ELSE "untested"

\* updateConfig({apiKey})
UpdateConfig(cfg, newKey) == [cfg EXCEPT !.apiKey = newKey]

\* gameHistory.slice(-n)
LastN(h, n) == IF Len(h) > n THEN SubSeq(h, Len(h) - n + 1, Len(h)) ELSE h

\* createNarratorPrompt: the parts of the prompt that vary
CreateNarratorPrompt(storyTopic, history, userAction, isFirstTurn) ==
  IF isFirstTurn
  THEN [task |-> "opening", topic |-> storyTopic, context |-> <<>>, action |-> ""]
  ELSE [task |-> "consequence", topic |-> storyTopic,
        context |-> LastN(history, ContextEntries), action |-> ToStr(userAction)]

\* a request built with the credential the constructor sets
RequestWithInitialKey(cfg, prompt) ==
  [baseUrl |-> cfg.baseUrl, apiKey |-> UnsetKey, prompt |-> prompt]

\* the request makeAPIRequest sends: the URL carries baseUrl and apiKey as
\* they are when the request is built
Request(cfg, prompt) == [baseUrl |-> cfg.baseUrl, apiKey |-> cfg.apiKey, prompt |-> prompt]

----------------------------------------------------------------------------
(* GameInterface: state *)

VARIABLES
  messages,              \* gameState.messages: the transcript
  currentChoices,        \* gameState.currentChoices
  isWaitingForResponse,  \* gameState.isWaitingForResponse
  gameStarted,           \* gameState.gameStarted
  storyTopic,            \* gameState.storyTopic
  gameHistory,           \* gameState.gameHistory
  apiError,              \* the apiError state: Null or Str(message)
  isUsingFallback,       \* the isUsingFallback state: the mode is fallback
  config,                \* AIService.config
  mounted,               \* GameInterface is mounted and its effects have run
  isTesting,             \* AIConfig's isTesting state
  testResult,            \* AIConfig's testResult state
  timers,                \* pending setTimeout callbacks of startGame
  turns,                 \* calls of generateStoryResponse that have not returned
  probes,                \* calls of testConnection that have not returned
  budget,                \* user events left in this behaviour
  svc                    \* one call of an AIService method, taken alone

gameState == <<messages, currentChoices, isWaitingForResponse, gameStarted,
               storyTopic, gameHistory>>

vars == <<messages, currentChoices, isWaitingForResponse, gameStarted, storyTopic,
          gameHistory, apiError, isUsingFallback, config, mounted, isTesting,
          testResult, timers, turns, probes, budget, svc>>

\* content is a JavaScript value: a narrator message holds response.story
Message(type, content) == [type |-> type, content |-> content]

\* what a handler reads through its closure: the state of the render that
\* created it
Closure == [topic |-> storyTopic, history |-> gameHistory, apiError |-> apiError]

\* a call of generateStoryResponse(userAction, isFirstTurn) made by a handler
\* with closure c; stale records that restartGame ran after the handler was
\* created, started the configuration of aiService when the call was made
\* (the call keeps no copy of it: no step reads started)
Turn(c, userAction, isFirstTurn, stale) ==
  [pc |-> "delay", topic |-> c.topic, history |-> c.history, apiError |-> c.apiError,
   action |-> userAction, first |-> isFirstTurn, sent |-> <<>>, stale |-> stale,
   started |-> config]

\* a call of testConnection(): the request is built when the call is made
Probe(origin, cfg, c, stale) ==
  [origin |-> origin, sent |-> Request(cfg, [task |-> "test"]),
   topic |-> c.topic, history |-> c.history, apiError |-> c.apiError, stale |-> stale]

Timer(c) == [topic |-> c.topic, history |-> c.history, apiError |-> c.apiError,
             stale |-> FALSE]

\* the closure of a caller that starts no turn when the call returns
NoClosure == [topic |-> "", history |-> <<>>, apiError |-> Null]

Remove(seq, i) == SubSeq(seq, 1, i - 1) \o SubSeq(seq, i + 1, Len(seq))

\* restartGame ran: the handlers that created these calls belong to a
\* session that is over (a probe matters only if its continuation starts a turn)
MarkStale(seq) == [i \in 1..Len(seq) |-> [seq[i] EXCEPT !.stale = TRUE]]
MarkStaleProbes(seq) ==
  [i \in 1..Len(seq) |-> IF seq[i].origin = "check" THEN [seq[i] EXCEPT !.stale = TRUE]
                         ELSE seq[i]]

----------------------------------------------------------------------------
(* GameInterface: helpers *)

LowerCase == "abcdefghijklmnopqrstuvwxyz"
UpperCase == "ABCDEFGHIJKLMNOPQRSTUVWXYZ"

UpperChar(c) ==
  IF \E i \in 1..Len(LowerCase) : SubSeq(LowerCase, i, i) = c
  THEN LET i == CHOOSE j \in 1..Len(LowerCase) : SubSeq(LowerCase, j, j) = c
       IN SubSeq(UpperCase, i, i)
  ELSE c

\* s.toUpperCase()
RECURSIVE ToUpperCase(_)
ToUpperCase(s) ==
  IF s = "" THEN ""
  ELSE UpperChar(SubSeq(s, 1, 1)) \o ToUpperCase(SubSeq(s, 2, Len(s)))

\* addToGameHistory: [...prev.gameHistory.slice(-10), historyEntry]
AddToGameHistory(history, userAction, narratorResponse) ==
  Append(LastN(history, HistoryKeep),
         "Player: " \o ToStr(userAction) \o "\nNarrator: " \o ToStr(narratorResponse))

\* s.split('\n')[0]
FirstLine(s) ==
  IF Includes(s, "\n")
  THEN SubSeq(s, 1, Min({i \in 1..Len(s) : SubSeq(s, i, i) = "\n"}) - 1)
  ELSE s

\* s.replace(pat, ''): the first occurrence only
RemoveFirst(s, pat) ==
  IF Includes(s, pat)
  THEN LET i == Min({j \in 1..(Len(s) - Len(pat) + 1) :
                         SubSeq(s, j, j + Len(pat) - 1) = pat})
       IN SubSeq(s, 1, i - 1) \o SubSeq(s, i + Len(pat), Len(s))
  ELSE s

\* handleChoice: the action 'Try again' replays
LastAction(history) ==
  LET stripped == RemoveFirst(FirstLine(history[Len(history)]), "Player: ")
  IN IF stripped = "" THEN "continue" ELSE stripped

RecoveryMenu ==
  << Choice(Str("1"), Str("Try again")),
     Choice(Str("2"), Str("Restart adventure")),
     Choice(Str("3"), Str("Continue with demo mode")),
     Choice(Str("4"), Str("Update API settings")) >>

\* response.story.includes is a function for strings and arrays only
IncludesThrows(story) == story.t \notin {"str", "arr"}

\* a test for 'offline mode' alone
SignalsOfflineModeOnly(story) ==
  /\ story.t = "str"
  /\ Includes(story.s, "offline mode")

\* response.story.includes('offline mode') || response.story.includes('fallback')
SignalsFallback(story) ==
  /\ story.t = "str"
  /\ (Includes(story.s, "offline mode") \/ Includes(story.s, "fallback"))

StartMessages(topic, fallback) ==
  << Message("system", Str("INITIALIZING ADVENTURE: " \o ToUpperCase(topic))),
     Message("system", Str(IF fallback THEN "RUNNING IN DEMO MODE..."
                           ELSE "CONNECTING TO AI NARRATOR...")),
     Message("system", Str("LOADING NARRATIVE ENGINE...")),
     Message("system", Str("REALITY MATRIX ESTABLISHED.")),
     Message("system", Str("===== ADVENTURE BEGINS =====")) >>

----------------------------------------------------------------------------
(* Initial state: AIService constructed, nothing mounted *)

InitWith(events) ==
  /\ messages = <<>>
  /\ currentChoices = <<>>
  /\ isWaitingForResponse = FALSE
  /\ gameStarted = FALSE
  /\ storyTopic = ""
  /\ gameHistory = <<>>
  /\ apiError = Null
  /\ isUsingFallback = FALSE
  /\ config = [apiKey |-> UnsetKey, baseUrl |-> BaseUrl]
  /\ mounted = FALSE
  /\ isTesting = FALSE
  /\ testResult = Null
  /\ timers = <<>>
  /\ turns = <<>>
  /\ probes = <<>>
  /\ budget = events

\* no AIService method is called on its own
NoCall == [pc |-> "none"]

Init == InitWith(MaxEvents) /\ svc = NoCall

----------------------------------------------------------------------------
(* AIConfig: the configuration screen shown before the game *)

\* handleTestConnection with the typed key
HandleTestConnection(key) ==
  /\ ~mounted
  /\ ~isTesting
  /\ budget > 0
  /\ Trim(key) # ""
  /\ budget' = budget - 1
  /\ isTesting' = TRUE
  /\ testResult' = Null
  /\ config' = UpdateConfig(config, Trim(key))
  /\ probes' = Append(probes, Probe("config", config', NoClosure, FALSE))
  /\ UNCHANGED <<gameState, apiError, isUsingFallback, mounted, timers, turns, svc>>

----------------------------------------------------------------------------
(* GameInterface: mount effect *)

\* useEffect(() => { testAPI() }, [])
Mount ==
  /\ ~mounted
  /\ mounted' = TRUE
  /\ IF GetApiKeyStatus(config) = "invalid"
     THEN /\ apiError' = Str("No API key configured. Using demo mode.")
          /\ isUsingFallback' = TRUE
          /\ probes' = probes
     ELSE /\ probes' = Append(probes, Probe("mount", config, NoClosure, FALSE))
          /\ UNCHANGED <<apiError, isUsingFallback>>
  /\ UNCHANGED <<gameState, config, isTesting, testResult, timers, turns, budget, svc>>

----------------------------------------------------------------------------
(* GameInterface: user events *)

\* onChange of the topic input on the start screen
SetTopic(topic) ==
  /\ mounted
  /\ ~gameStarted
  /\ storyTopic # topic
  /\ storyTopic' = topic
  /\ UNCHANGED <<messages, currentChoices, isWaitingForResponse, gameStarted,
                 gameHistory, apiError, isUsingFallback, config, mounted, isTesting,
                 testResult, timers, turns, probes, budget, svc>>

\* startGame
StartGame ==
  /\ mounted
  /\ ~gameStarted
  /\ budget > 0
  /\ Trim(storyTopic) # ""
  /\ budget' = budget - 1
  /\ gameStarted' = TRUE
  /\ gameHistory' = <<>>
  /\ messages' = messages \o StartMessages(storyTopic, isUsingFallback)
  /\ timers' = Append(timers, Timer(Closure))
  /\ UNCHANGED <<currentChoices, isWaitingForResponse, storyTopic, apiError,
                 isUsingFallback, config, mounted, isTesting, testResult, turns, probes,
                 svc>>

\* a restart that also forgets the last error
RestartClearsError ==
  /\ messages' = <<>>
  /\ currentChoices' = <<>>
  /\ isWaitingForResponse' = FALSE
  /\ gameStarted' = FALSE
  /\ storyTopic' = ""
  /\ gameHistory' = <<>>
  /\ timers' = MarkStale(timers)
  /\ turns' = MarkStale(turns)
  /\ probes' = MarkStaleProbes(probes)
  /\ apiError' = Null
  /\ UNCHANGED <<isUsingFallback, config, mounted, isTesting, testResult, svc>>

\* restartGame: the state it sets
RestartEffect ==
  /\ messages' = <<>>
  /\ currentChoices' = <<>>
  /\ isWaitingForResponse' = FALSE
  /\ gameStarted' = FALSE
  /\ storyTopic' = ""
  /\ gameHistory' = <<>>
  /\ timers' = MarkStale(timers)
  /\ turns' = MarkStale(turns)
  /\ probes' = MarkStaleProbes(probes)
  /\ UNCHANGED <<apiError, isUsingFallback, config, mounted, isTesting, testResult, svc>>

\* the RESTART button of the header
RestartGame ==
  /\ mounted
  /\ gameStarted
  /\ budget > 0
  /\ budget' = budget - 1
  /\ RestartEffect

\* updateApiKey accepts what prompt() returned: newApiKey && newApiKey.trim()
KeyEntered(reply) == Truthy(reply) /\ Trim(reply.s) # ""

\* updateApiKey with an accepted reply
UpdateApiKeyEffect(reply) ==
  /\ config' = UpdateConfig(config, Trim(reply.s))
  /\ apiError' = Null
  /\ messages' = Append(messages,
                        Message("system", Str("API KEY UPDATED. TESTING CONNECTION...")))
  /\ probes' = Append(probes, Probe("update", config', NoClosure, FALSE))
  /\ UNCHANGED <<currentChoices, isWaitingForResponse, gameStarted, storyTopic,
                 gameHistory, isUsingFallback, mounted, isTesting, testResult,
                 timers, turns, svc>>

\* the CONFIGURE API KEY button (start screen) and the API button (header)
UpdateApiKey(reply) ==
  /\ mounted
  /\ budget > 0
  /\ IF gameStarted THEN Truthy(apiError) \/ isUsingFallback ELSE Truthy(apiError)
  /\ IF KeyEntered(reply)
     THEN budget' = budget - 1 /\ UpdateApiKeyEffect(reply)
     ELSE UNCHANGED vars

\* a turn that starts on a fresh transcript
BeginTurnFreshTranscript(c, userAction, isFirstTurn, stale, added) ==
  /\ isWaitingForResponse' = TRUE
  /\ currentChoices' = <<>>
  /\ apiError' = Null
  /\ messages' = added
  /\ turns' = Append(turns, Turn(c, userAction, isFirstTurn, stale))
  /\ UNCHANGED <<gameStarted, storyTopic, gameHistory, config, mounted, isTesting,
                 testResult, svc>>

\* a turn that starts with the choices still on offer
BeginTurnKeepsChoices(c, userAction, isFirstTurn, stale, added) ==
  /\ isWaitingForResponse' = TRUE
  /\ currentChoices' = currentChoices
  /\ apiError' = Null
  /\ messages' = messages \o added
  /\ turns' = Append(turns, Turn(c, userAction, isFirstTurn, stale))
  /\ UNCHANGED <<gameStarted, storyTopic, gameHistory, config, mounted, isTesting,
                 testResult, svc>>

\* generateStoryResponse up to its first await, called by a handler with
\* closure c after the handler appended `added` to the transcript
BeginTurn(c, userAction, isFirstTurn, stale, added) ==
  /\ isWaitingForResponse' = TRUE
  /\ currentChoices' = <<>>
  /\ apiError' = Null
  /\ messages' = messages \o added
  /\ turns' = Append(turns, Turn(c, userAction, isFirstTurn, stale))
  /\ UNCHANGED <<gameStarted, storyTopic, gameHistory, config, mounted, isTesting,
                 testResult, svc>>

\* handleUserInput: the form is submitted with this text in the input
HandleUserInput(input) ==
  /\ mounted
  /\ gameStarted
  /\ budget > 0
  /\ IF Trim(input) = "" \/ isWaitingForResponse
     THEN UNCHANGED vars
     ELSE /\ budget' = budget - 1
          /\ BeginTurn(Closure, Str(input), FALSE, FALSE,
                       <<Message("user", Str("> " \o input))>>)
          /\ UNCHANGED <<isUsingFallback, timers, probes>>

\* a handleChoice that treats every choice as a normal turn
HandleChoiceNoSpecials(i, reply) ==
  /\ mounted
  /\ gameStarted
  /\ budget > 0
  /\ ~isWaitingForResponse
  /\ i \in 1..Len(currentChoices)
  /\ LET choice == currentChoices[i]
         echo == Message("user", Str("> " \o ToStr(choice.text)))
     IN /\ budget' = budget - 1
        /\ BeginTurn(Closure, choice.text, FALSE, FALSE, <<echo>>)
        /\ UNCHANGED <<isUsingFallback, timers, probes>>

\* handleChoice(currentChoices[i]); the choice buttons are rendered when
\* there are choices and no response is awaited; reply is what prompt()
\* returns if the choice opens it
HandleChoice(i, reply) ==
  /\ mounted
  /\ gameStarted
  /\ budget > 0
  /\ ~isWaitingForResponse
  /\ i \in 1..Len(currentChoices)
  /\ LET choice == currentChoices[i]
         echo == Message("user", Str("> " \o ToStr(choice.text)))
     IN CASE choice.text = Str("Restart adventure") ->
               budget' = budget - 1 /\ RestartEffect
          [] choice.text = Str("Try again") /\ Len(gameHistory) > 0 ->
               /\ budget' = budget - 1
               /\ BeginTurn(Closure, Str(LastAction(gameHistory)), FALSE, FALSE, <<echo>>)
               /\ UNCHANGED <<isUsingFallback, timers, probes>>
          [] choice.text = Str("Update API settings") ->
               IF KeyEntered(reply)
               THEN budget' = budget - 1 /\ UpdateApiKeyEffect(reply)
               ELSE UNCHANGED vars
          [] choice.text = Str("Continue with demo mode") ->
               /\ budget' = budget - 1
               /\ isUsingFallback' = TRUE
               /\ BeginTurn(Closure, Str("continue in demo mode"), FALSE, FALSE,
                            <<echo, Message("system", Str("SWITCHING TO DEMO MODE..."))>>)
               /\ UNCHANGED <<timers, probes>>
          [] choice.text = Str("Check connection") ->
               /\ budget' = budget - 1
               /\ messages' = messages \o
                    <<echo, Message("system", Str("TESTING AI CONNECTION..."))>>
               /\ probes' = Append(probes, Probe("check", config, Closure, FALSE))
               /\ UNCHANGED <<currentChoices, isWaitingForResponse, gameStarted,
                              storyTopic, gameHistory, apiError, isUsingFallback,
                              config, mounted, isTesting, testResult, timers, turns, svc>>
          [] OTHER ->
               /\ budget' = budget - 1
               /\ BeginTurn(Closure, choice.text, FALSE, FALSE, <<echo>>)
               /\ UNCHANGED <<isUsingFallback, timers, probes>>

----------------------------------------------------------------------------
(* Inputs *)

Topics == {"", "space"}
UserInputs == {"", "look around"}
ConfigKeys == {"key-0"}
PromptReplies == {Null, Str(" key-1 ")}

PlainChoices ==
  Arr(<< Obj(Str("1"), Str("Open the hatch")),
         Obj(Str("2"), Str("Check connection")),
         Obj(Str("3"), Str("Hide")),
         Obj(Str("4"), Str("Run")) >>)

NoJsonReply == Reply(<<Prose("I cannot help with that.")>>)
PlainReply ==
  Reply(<<Prose("Here is the scene: ")>> \o JsonText(Str("Alarms shriek."), PlainChoices)
          \o <<Prose(" Enjoy!")>>)
BunkerReply == Reply(JsonText(Str("You find the fallback bunker."), Arr(<<>>)))
NumberReply == Reply(JsonText(Num(7), PlainChoices))

\* what the backend does with a request of the game
GameOutcomes == {NetworkError, NoJsonReply, PlainReply, BunkerReply, NumberReply}

\* what the backend does with a request, AIService taken alone
Outcomes ==
  GameOutcomes \cup
  { HttpStatus(500),
    HttpStatus(401),
    NoTextField,
    Reply(<<>>),
    Reply(<<Prose("Here: "), LBrace, Prose("story: none"), RBrace>>),
    Reply(<<RBrace, Prose(" then "), LBrace>>),
    Reply(JsonText(Str("One."), PlainChoices) \o <<Prose(" or ")>>
            \o JsonText(Str("Two."), PlainChoices)),
    Reply(JsonText(Str(""), PlainChoices)),
    Reply(JsonText(Undef, PlainChoices)),
    Reply(JsonText(Str("A door."), Undef)),
    Reply(JsonText(Str("A door."), Str("open it"))),
    Reply(JsonText(Str("A door."), Arr(<<Obj(Str("a"), Str("Knock")), Null>>))),
    Reply(JsonText(Str("A door."), Arr(<<Obj(Undef, Str("")), Str("Knock"),
                                         Obj(Str("3"), Str("Leave")),
                                         Obj(Str("4"), Str("Wait")),
                                         Obj(Str("5"), Str("Shout"))>>))) }

\* the random index getFallbackResponse draws, in the game
Picks == 1..MaxPick

\* generateStoryResponse of GameInterface after the await: the response and
\* what response.story.includes does with it
ResolvedTurn(outcome, pick) ==
  LET response == StoryResponse(outcome, pick)
  IN [response |-> response,
      throws |-> IncludesThrows(response.story),
      signals |-> SignalsFallback(response.story)]

\* ResolvedTurn and TestConnectionResult, tabulated
ResolvedTurns == [outcome \in Outcomes, pick \in 1..PoolSize |-> ResolvedTurn(outcome, pick)]
\* testConnection returning the negation of what it found
TestConnectionInverted ==
  [outcome \in Outcomes, pick \in 1..PoolSize |-> ~TestConnectionResult(outcome, pick)]

TestConnectionResults ==
  [outcome \in Outcomes, pick \in 1..PoolSize |-> TestConnectionResult(outcome, pick)]

----------------------------------------------------------------------------
(* GameInterface: timers and calls that return *)

\* the setTimeout callback of startGame: generateStoryResponse('', true)
TimerFire(i) ==
  /\ i \in 1..Len(timers)
  /\ timers' = Remove(timers, i)
  /\ BeginTurn(timers[i], Str(""), TRUE, timers[i].stale, <<>>)
  /\ UNCHANGED <<isUsingFallback, probes, budget>>

\* the typing delay of turn i is over: aiService.generateStoryResponse builds
\* the prompt from the closure and makeAPIRequest sends the request
TurnRequest(i) ==
  /\ i \in 1..Len(turns)
  /\ turns[i].pc = "delay"
  /\ turns' = [turns EXCEPT ![i].pc = "fetch",
                            ![i].sent = <<Request(config,
                               CreateNarratorPrompt(turns[i].topic, turns[i].history,
                                                    turns[i].action, turns[i].first))>>]
  /\ UNCHANGED <<gameState, apiError, isUsingFallback, config, mounted, isTesting,
                 testResult, timers, probes, budget, svc>>

\* the request of turn i ends with outcome: the rest of generateStoryResponse
TurnResolve(i, outcome, pick) ==
  /\ i \in 1..Len(turns)
  /\ turns[i].pc = "fetch"
  /\ turns' = Remove(turns, i)
  /\ LET turn == turns[i]
         resolved == ResolvedTurns[outcome, pick]
         response == resolved.response
         narrated == Append(messages, Message("narrator", response.story))
     IN /\ gameHistory' = IF turn.first THEN gameHistory
                          ELSE AddToGameHistory(gameHistory, turn.action, response.story)
        /\ isWaitingForResponse' = FALSE
        /\ IF resolved.throws
           THEN \* the catch block
                /\ apiError' = Str("Failed to generate response: response.story.includes is not a function")
                /\ messages' = Append(narrated, Message("error",
                     Str("NARRATIVE ENGINE ERROR: Unable to process request. The AI narrator is experiencing difficulties.")))
                /\ currentChoices' = RecoveryMenu
                /\ UNCHANGED isUsingFallback
           ELSE /\ messages' = narrated
                /\ currentChoices' = response.choices
                /\ IF resolved.signals
                   THEN /\ isUsingFallback' = TRUE
                        /\ apiError' = IF Truthy(turn.apiError) THEN apiError
                                       ELSE Str("Using offline mode - stories may be limited")
                   ELSE UNCHANGED <<isUsingFallback, apiError>>
  /\ UNCHANGED <<gameStarted, storyTopic, config, mounted, isTesting, testResult,
                 timers, probes, budget, svc>>

\* the request of probe i ends with outcome: testConnection returns and the
\* caller's continuation runs
ProbeDone(i, outcome, pick) ==
  /\ i \in 1..Len(probes)
  /\ probes' = Remove(probes, i)
  /\ LET probe == probes[i]
         isConnected == TestConnectionResults[outcome, pick]
     IN CASE probe.origin = "config" ->
               /\ isTesting' = FALSE
               /\ testResult' = Str(IF isConnected THEN "success" ELSE "error")
               /\ UNCHANGED <<gameState, apiError, isUsingFallback, config, mounted,
                              timers, turns, budget, svc>>
          [] probe.origin = "mount" ->
               /\ apiError' = IF isConnected THEN Null
                              ELSE Str("AI service connection failed. Using fallback responses.")
               /\ isUsingFallback' = ~isConnected
               /\ UNCHANGED <<gameState, config, mounted, isTesting, testResult,
                              timers, turns, budget, svc>>
          [] probe.origin = "update" ->
               /\ messages' = Append(messages, Message("system",
                    Str(IF isConnected THEN "CONNECTION SUCCESSFUL! AI NARRATOR ONLINE."
                        ELSE "CONNECTION FAILED. CHECK YOUR API KEY.")))
               /\ apiError' = IF isConnected THEN apiError
                              ELSE Str("Invalid API key or connection failed")
               /\ isUsingFallback' = ~isConnected
               /\ UNCHANGED <<currentChoices, isWaitingForResponse, gameStarted,
                              storyTopic, gameHistory, config, mounted, isTesting,
                              testResult, timers, turns, budget, svc>>
          [] probe.origin = "check" ->
               /\ isUsingFallback' = ~isConnected
               /\ IF isConnected
                  THEN BeginTurn(probe, Str("check surroundings"), FALSE, probe.stale,
                         <<Message("system", Str("CONNECTION RESTORED. CONTINUING ADVENTURE..."))>>)
                  ELSE /\ messages' = Append(messages, Message("system",
                            Str("CONNECTION FAILED. USING LOCAL FALLBACK MODE.")))
                       /\ apiError' = Str("Using offline mode")
                       /\ UNCHANGED <<currentChoices, isWaitingForResponse, gameStarted,
                                      storyTopic, gameHistory, config, mounted,
                                      isTesting, testResult, turns, svc>>
               /\ UNCHANGED <<timers, budget>>

----------------------------------------------------------------------------
(* Specification of the game *)

Next ==
  \/ \E key \in ConfigKeys : HandleTestConnection(key)
  \/ Mount
  \/ \E topic \in Topics : SetTopic(topic)
  \/ StartGame
  \/ RestartGame
  \/ \E reply \in PromptReplies : UpdateApiKey(reply)
  \/ \E input \in UserInputs : HandleUserInput(input)
  \/ \E i \in 1..NumChoices, reply \in PromptReplies : HandleChoice(i, reply)
  \/ \E i \in 1..Len(timers) : TimerFire(i)
  \/ \E i \in 1..Len(turns) : TurnRequest(i)
  \/ \E i \in 1..Len(turns), outcome \in GameOutcomes, pick \in Picks :
       TurnResolve(i, outcome, pick)
  \/ \E i \in 1..Len(probes), outcome \in GameOutcomes, pick \in Picks :
       ProbeDone(i, outcome, pick)

Spec == Init /\ [][Next]_vars

\* the event loop runs every callback that is due, and a request of the
\* backend ends (with a reply, an error status or a network error)
SpecLive ==
  /\ Spec
  /\ WF_vars(\E i \in 1..Len(timers) : TimerFire(i))
  /\ WF_vars(\E i \in 1..Len(turns) : TurnRequest(i))
  /\ WF_vars(\E i \in 1..Len(turns), outcome \in GameOutcomes, pick \in Picks :
               TurnResolve(i, outcome, pick))
  /\ WF_vars(\E i \in 1..Len(probes), outcome \in GameOutcomes, pick \in Picks :
               ProbeDone(i, outcome, pick))

----------------------------------------------------------------------------
(* Specification of one long session: the player types one action per     *)
(* turn, each action names its turn, and the backend answers every request *)

HistoryInput == "step " \o ToString(MaxHistoryEvents - budget)
HistoryOutcomes == {PlainReply}

InitHistory == InitWith(MaxHistoryEvents) /\ svc = NoCall

NextHistory ==
  \/ Mount
  \/ SetTopic("space")
  \/ StartGame
  \/ HandleUserInput(HistoryInput)
  \/ \E i \in 1..Len(timers) : TimerFire(i)
  \/ \E i \in 1..Len(turns) : TurnRequest(i)
  \/ \E i \in 1..Len(turns), outcome \in HistoryOutcomes :
       TurnResolve(i, outcome, 1)

SpecHistory == InitHistory /\ [][NextHistory]_vars

----------------------------------------------------------------------------
(* Specification of AIService taken alone: one method is called with one  *)
(* outcome of its request and one random draw                             *)

Call(outcome, pick) == [pc |-> "called", outcome |-> outcome, pick |-> pick]

InitService ==
  /\ InitWith(0)
  /\ svc \in {Call(outcome, pick) : outcome \in Outcomes, pick \in 1..PoolSize}

\* makeAPIRequest returns; its catch block catches whatever the try block
\* throws, so it never throws
ServiceMakeAPIRequest ==
  /\ svc.pc = "called"
  /\ svc' = [pc |-> "makeAPIRequest", outcome |-> svc.outcome, pick |-> svc.pick,
             threw |-> FALSE, text |-> MakeAPIRequest(svc.outcome, svc.pick)]
  /\ UNCHANGED <<gameState, apiError, isUsingFallback, config, mounted, isTesting,
                 testResult, timers, turns, probes, budget>>

\* generateStoryResponse returns; its catch block returns a fallback
ServiceGenerateStoryResponse ==
  /\ svc.pc = "called"
  /\ svc' = [pc |-> "generateStoryResponse", outcome |-> svc.outcome, pick |-> svc.pick,
             threw |-> FALSE, response |-> StoryResponse(svc.outcome, svc.pick)]
  /\ UNCHANGED <<gameState, apiError, isUsingFallback, config, mounted, isTesting,
                 testResult, timers, turns, probes, budget>>

\* testConnection returns
ServiceTestConnection ==
  /\ svc.pc = "called"
  /\ svc' = [pc |-> "testConnection", outcome |-> svc.outcome, pick |-> svc.pick,
             threw |-> FALSE, connected |-> TestConnectionResult(svc.outcome, svc.pick)]
  /\ UNCHANGED <<gameState, apiError, isUsingFallback, config, mounted, isTesting,
                 testResult, timers, turns, probes, budget>>

NextService ==
  \/ ServiceMakeAPIRequest
  \/ ServiceGenerateStoryResponse
  \/ ServiceTestConnection

SpecService == InitService /\ [][NextService]_vars

----------------------------------------------------------------------------
(* Specification of the normalizer taken alone: generateStoryResponse is   *)
(* called and the backend answers with one JSON object                     *)

Digits == "0123456789"

\* the characters from..to of a text whose i-th character is the last
\* digit of i
RECURSIVE Span(_, _)
Span(from, to) ==
  IF from > to THEN ""
  ELSE IF from = to THEN SubSeq(Digits, (from % 10) + 1, (from % 10) + 1)
  ELSE Span(from, (from + to) \div 2) \o Span(((from + to) \div 2) + 1, to)

\* a text of n characters
Text(n) == Span(1, n)

\* the story field of the object: short, at the limit, over the limit, a
\* number, empty, missing
NormStories ==
  {Str("A door."), Str(Text(StoryLimit)), Str(Text(StoryLimit + 1)),
   Num(7), Str(""), Undef}

\* an element of the choices array: text at the limit, text over the limit,
\* no id and empty text, null
NormElements ==
  {Obj(Str("a"), Str(Text(ChoiceLimit))), Obj(Str("b"), Str(Text(ChoiceLimit + 1))),
   Obj(Undef, Str("")), Null}

NormChoices == UNION {[1..n -> NormElements] : n \in 0..MaxChoices}

InitNormalize ==
  /\ InitWith(0)
  /\ svc \in {Call(Reply(JsonText(story, Arr(choices))), 1) :
                story \in NormStories, choices \in NormChoices}

NextNormalize == ServiceGenerateStoryResponse

SpecNormalize == InitNormalize /\ [][NextNormalize]_vars

----------------------------------------------------------------------------
(* Vocabulary of the claims *)

\* a step in which generateStoryResponse is called
TurnStarts == Len(turns') = Len(turns) + 1

\* a step in which a call of generateStoryResponse returns
TurnReturns == Len(turns') = Len(turns) - 1

\* the messages a step appends to the transcript
Appended == SubSeq(messages', Len(messages) + 1, Len(messages'))

OfType(msgs, type) == {i \in 1..Len(msgs) : msgs[i].type = type}

\* the requests that are with the backend
SentRequests ==
  {turns[i].sent[1] : i \in {j \in 1..Len(turns) : turns[j].pc = "fetch"}}
  \cup {probes[i].sent : i \in 1..Len(probes)}

\* the payloads of the fallback pool
PoolPayloads == {ParsedFallback(pick) : pick \in 1..PoolSize}

\* the backend answered, and its text has no {...}, does not parse, or
\* parses without a non-empty story or without an array of choices
Malformed(outcome) ==
  /\ ~RequestFails(outcome)
  /\ LET jsonMatch == JsonMatch(outcome.text.a)
     IN \/ jsonMatch = <<>>
        \/ ~Parses(jsonMatch)
        \/ ~Truthy(JsonParse(jsonMatch).story)
        \/ JsonParse(jsonMatch).choices.t # "arr"

\* the backend's own text parses into a story and exactly 4 choices
OwnReplyValid(outcome) ==
  /\ ~RequestFails(outcome)
  /\ LET jsonMatch == JsonMatch(outcome.text.a)
     IN /\ jsonMatch # <<>>
        /\ Parses(jsonMatch)
        /\ Truthy(JsonParse(jsonMatch).story)
        /\ LengthOf(JsonParse(jsonMatch).choices) = NumChoices

----------------------------------------------------------------------------
(* Claims *)

\* C1: while isWaitingForResponse is true, invoking a turn through any entry
\* point (typed input, a choice, the delayed opening turn of startGame, the
\* continuation of a connectivity check) is a no-op: no call of
\* generateStoryResponse is made, and transcript and history stay as they are.
C1_GuardRejectsTurn ==
  [][isWaitingForResponse =>
       /\ ~TurnStarts
       /\ (\/ \E input \in UserInputs : HandleUserInput(input)
           \/ \E i \in 1..Len(timers) : TimerFire(i))
          => UNCHANGED <<messages, gameHistory, turns>>]_vars

\* C2: a timer or a turn that restartGame left behind changes nothing of the
\* session when it fires or returns: transcript, history, choices and
\* isWaitingForResponse stay as they are.
C2_StaleResultDropped ==
  [][(\/ \E i \in 1..Len(turns) : turns[i].stale /\ turns' = Remove(turns, i)
      \/ \E i \in 1..Len(timers) : timers[i].stale /\ timers' = Remove(timers, i))
     => UNCHANGED <<messages, gameHistory, currentChoices, isWaitingForResponse>>]_vars

\* C3: a non-first turn whose request fails at the transport level ends with
\* one new error message in the transcript, the mode fallback and the
\* recovery menu as the choice set.
C3_TransportFailureRecovery ==
  [][\A i \in 1..Len(turns), outcome \in GameOutcomes, pick \in Picks :
       (TurnResolve(i, outcome, pick) /\ ~turns[i].first /\ RequestFails(outcome))
       => /\ Cardinality(OfType(Appended, "error")) = 1
          /\ isUsingFallback'
          /\ currentChoices' = RecoveryMenu]_vars

\* C4: testConnection never throws, returns true only if the backend's own
\* reply parses into a story and exactly 4 choices, and returns false for
\* every transport failure.
C4_ConnectivityHonest ==
  svc.pc = "testConnection" =>
    /\ ~svc.threw
    /\ svc.connected => OwnReplyValid(svc.outcome)
    /\ RequestFails(svc.outcome) => ~svc.connected

\* C5: the history buffer never holds more than 10 entries.
C5_HistoryBounded == Len(gameHistory) <= 10

\* C6: makeAPIRequest never returns fallback content: it throws when the
\* request fails, and the text it returns is the text of the backend's reply.
C6_ClientNeverSubstitutes ==
  svc.pc = "makeAPIRequest" =>
    IF RequestFails(svc.outcome) THEN svc.threw
    ELSE ~svc.threw /\ svc.text = svc.outcome.text.a

\* C7: a turn whose backend text is malformed ends with a payload of the
\* fallback pool and with the mode fallback.
C7_MalformedMeansFallbackMode ==
  [][\A i \in 1..Len(turns), outcome \in GameOutcomes, pick \in Picks :
       (TurnResolve(i, outcome, pick) /\ Malformed(outcome))
       => /\ \E payload \in PoolPayloads :
               /\ Appended = <<Message("narrator", payload.story)>>
               /\ currentChoices' = payload.choices
          /\ isUsingFallback']_vars

\* C8: while the credential is empty or the unset sentinel, the mode is
\* fallback and no request carrying it is with the backend.
C8_UnconfiguredStaysLocal ==
  /\ (mounted /\ GetApiKeyStatus(config) = "invalid") => isUsingFallback
  /\ \A request \in SentRequests : request.apiKey \notin {"", UnsetKey}

\* C9: every call of generateStoryResponse returns, given that its request
\* ends, and when it returns a narrator message for it has been appended,
\* isWaitingForResponse is false and there are exactly 4 choices.
C9_TurnResolves ==
  /\ [][TurnReturns =>
          /\ Appended # <<>>
          /\ Appended[1].type = "narrator"
          /\ Truthy(Appended[1].content)
          /\ ~isWaitingForResponse'
          /\ Len(currentChoices') = 4]_vars
  /\ (turns # <<>>) ~> (turns = <<>>)

\* C9 witness: a turn returned with a repaired payload: the backend's story
\* and the four default choices
C9_Witness ==
  /\ turns = <<>>
  /\ ~isWaitingForResponse
  /\ messages # <<>>
  /\ messages[Len(messages)] = Message("narrator", Str("You find the fallback bunker."))
  /\ currentChoices = [i \in 1..4 |-> Choice(Str(ToString(i)), Str(DefaultChoices[i]))]

\* C10: at most one request of a turn is with the backend, and
\* isWaitingForResponse is true as long as a turn is in flight.
C10_OneTurnInFlight ==
  /\ Cardinality({i \in 1..Len(turns) : turns[i].pc = "fetch"}) <= 1
  /\ turns # <<>> => isWaitingForResponse

----------------------------------------------------------------------------
(* Vocabulary of the claims about the normalizer *)

\* the object the backend's text carries
Payload(outcome) == JsonParse(JsonMatch(outcome.text.a))

\* the backend's text passes steps 1-3: a {...} is found, it parses, the
\* story is non-empty and choices is an array
Accepted(outcome) == ~RequestFails(outcome) /\ ~Malformed(outcome)

\* generateStoryResponse returned for a text that passes steps 1-3
Normalized == svc.pc = "generateStoryResponse" /\ Accepted(svc.outcome)

\* a choice of the input after step 6: a missing id is its position, a
\* missing or empty text is Option N, a text over 35 characters is cut
RepairedChoice(c, i) ==
  LET id == IF c.t = "obj" THEN c.id ELSE Undef
      text == IF c.t = "obj" THEN c.text ELSE Undef
  IN Choice(IF Truthy(id) THEN id ELSE Str(ToString(i)),
            IF ~Truthy(text) THEN Str("Option " \o ToString(i))
            ELSE IF text.t = "str" /\ Len(text.s) > 35
                 THEN Str(SubSeq(text.s, 1, 32) \o "...")
                 ELSE text)

\* the choice step 5 adds at position i
AddedChoice(i) ==
  Choice(Str(ToString(i)),
         Str(<<"Continue forward", "Look around", "Wait and listen", "Go back">>[i]))

\* C11: for a payload with a non-empty story and 0, 1, 2 or 3 choices the
\* output has exactly 4 choices: the original ones in order, then added ones
\* whose id is their position and whose text is the default of that position.
C11_FewChoicesPadded ==
  (Normalized /\ Len(Payload(svc.outcome).choices.a) < 4) =>
    LET original == Payload(svc.outcome).choices.a
    IN /\ Len(svc.response.choices) = 4
       /\ \A i \in 1..4 :
            svc.response.choices[i] =
              IF i <= Len(original) THEN RepairedChoice(original[i], i)
              ELSE AddedChoice(i)

\* C12: for a payload with a non-empty story and more than 4 choices the
\* output has exactly the first 4 original choices, in their order.
C12_ManyChoicesTrimmed ==
  (Normalized /\ Len(Payload(svc.outcome).choices.a) > 4) =>
    LET original == Payload(svc.outcome).choices.a
    IN /\ Len(svc.response.choices) = 4
       /\ \A i \in 1..4 : svc.response.choices[i] = RepairedChoice(original[i], i)

\* C13: for an accepted payload whose story has L characters the output
\* story has at most 400; it is the first 380 characters and "..." if
\* L > 400, and the story itself otherwise.
C13_StoryCapped ==
  (Normalized /\ Payload(svc.outcome).story.t = "str") =>
    LET story == Payload(svc.outcome).story.s
        output == svc.response.story
    IN /\ output.t = "str"
       /\ Len(output.s) <= 400
       /\ IF Len(story) > 400
          THEN output.s = SubSeq(story, 1, 380) \o "..." /\ Len(output.s) = 383
          ELSE output.s = story

\* C14: each of the 4 final choices whose text is non-empty and has L
\* characters comes out with the first 32 characters and "..." if L > 35 and
\* with its text otherwise; no output choice text has more than 35 characters.
C14_ChoiceTextCapped ==
  Normalized =>
    LET original == Payload(svc.outcome).choices.a
    IN /\ Len(svc.response.choices) = 4
       /\ \A i \in 1..4 :
            /\ svc.response.choices[i].text.t = "str"
            /\ Len(svc.response.choices[i].text.s) <= 35
            /\ (/\ i <= Len(original)
                /\ original[i].t = "obj"
                /\ original[i].text.t = "str"
                /\ original[i].text.s # "")
               => svc.response.choices[i].text =
                    IF Len(original[i].text.s) > 35
                    THEN Str(SubSeq(original[i].text.s, 1, 32) \o "...")
                    ELSE original[i].text

\* the backend's text carries a story and 4 choices that need no repair
WellFormed(outcome) ==
  /\ OwnReplyValid(outcome)
  /\ Payload(outcome).story.t = "str"
  /\ Len(Payload(outcome).story.s) <= 400
  /\ \A i \in 1..4 :
       LET c == Payload(outcome).choices.a[i]
       IN /\ c.t = "obj"
          /\ c.id.t = "str" /\ c.id.s # ""
          /\ c.text.t = "str" /\ c.text.s # "" /\ Len(c.text.s) <= 35

\* the choices of the backend's payload, as the choice set holds them
StubChoices(outcome) ==
  [i \in 1..4 |-> Choice(Payload(outcome).choices.a[i].id,
                         Payload(outcome).choices.a[i].text)]

\* the transcript holds the messages of startGame and nothing else: no
\* player action and no narration came before
OnlyStartMessages ==
  /\ Len(messages) = 5
  /\ \A k \in 1..Len(messages) : messages[k].type = "system"

C16_FallbackModeIsLocal ==
  [][isUsingFallback =>
       /\ \A i \in 1..Len(turns) : ~TurnRequest(i)
       /\ TurnReturns =>
            \E payload \in PoolPayloads :
              /\ Appended # <<>>
              /\ Appended[1] = Message("narrator", payload.story)
              /\ currentChoices' = payload.choices]_vars

\* C17: when the prompt of a non-first turn B is built, every non-first turn
\* started before B has returned, and the history B's prompt is built from is
\* the session's history, which holds their entries in the order the turns
\* were started.
C17_CausalHistory ==
  [][\A i \in 1..Len(turns) :
       (TurnRequest(i) /\ ~turns[i].first)
       => /\ \A j \in 1..(i - 1) : turns[j].first
          /\ turns[i].history = gameHistory]_vars

\* C18: for a text that passes steps 1-3 the normalizer never fails: the
\* output is the input repaired (its story, cut if over 400 characters, and
\* its choices padded, trimmed and defaulted), never a fallback payload.
C18_NormalizerNeverFails ==
  Normalized =>
    LET story == Payload(svc.outcome).story
        original == Payload(svc.outcome).choices.a
    IN /\ svc.response.story =
            IF story.t = "str" /\ Len(story.s) > 400
            THEN Str(SubSeq(story.s, 1, 380) \o "...")
            ELSE story
       /\ svc.response.choices =
            [i \in 1..4 |-> IF i <= Len(original) THEN RepairedChoice(original[i], i)
                            ELSE AddedChoice(i)]

\* the story is not a non-empty string
NoStory(story) == story.t # "str" \/ story.s = ""

\* C19: a payload whose story is missing, empty or not a string is rejected
\* and the turn uses a payload of the fallback pool; the story of every
\* narrator message is a non-empty string.
C19_StoryIsText ==
  [][\A i \in 1..Len(turns), outcome \in GameOutcomes, pick \in Picks :
       TurnResolve(i, outcome, pick)
       => /\ Appended # <<>>
          /\ Appended[1].type = "narrator"
          /\ ~NoStory(Appended[1].content)
          /\ (/\ ~RequestFails(outcome)
              /\ JsonMatch(outcome.text.a) # <<>>
              /\ Parses(JsonMatch(outcome.text.a))
              /\ NoStory(Payload(outcome).story))
             => \E payload \in PoolPayloads : Appended[1].content = payload.story]_vars

\* C20: the request of a turn carries the credential and endpoint that were
\* in effect when the turn started, whatever updateConfig did since.
C20_ConfigAtTurnStart ==
  \A i \in 1..Len(turns) :
    turns[i].pc = "fetch" =>
      /\ turns[i].sent[1].apiKey = turns[i].started.apiKey
      /\ turns[i].sent[1].baseUrl = turns[i].started.baseUrl

\* C20 as amended: the request of a turn carries the credential and endpoint
\* in effect when makeAPIRequest builds it, at the end of the typing delay,
\* and no later updateConfig changes the request that was sent.
C20_ConfigAtRequest ==
  [][\A i \in 1..Len(turns) :
       /\ TurnRequest(i) =>
            /\ turns'[i].sent[1].apiKey = config.apiKey
            /\ turns'[i].sent[1].baseUrl = config.baseUrl
       /\ (turns[i].pc = "fetch" /\ config' # config) =>
            /\ Len(turns') = Len(turns)
            /\ turns'[i].sent = turns[i].sent]_vars

\* C20 witness: updateConfig ran after the request of a turn was sent; the
\* request in flight carries the earlier credential
C20_Witness ==
  \E i \in 1..Len(turns) :
    /\ turns[i].pc = "fetch"
    /\ turns[i].sent[1].apiKey = turns[i].started.apiKey
    /\ turns[i].sent[1].apiKey # config.apiKey

----------------------------------------------------------------------------
(* Claims about the mode, the recovery menu and the session *)

\* a connectivity check made by the mount effect, by 'Check connection' or
\* after a credential update returns true to its caller
CheckSucceeds ==
  \E i \in 1..Len(probes), outcome \in GameOutcomes, pick \in Picks :
    /\ ProbeDone(i, outcome, pick)
    /\ probes[i].origin \in {"mount", "check", "update"}
    /\ TestConnectionResult(outcome, pick)

\* C21: the mode changes from fallback to live only in a step that completes
\* a connectivity check with result true; no returning turn changes it to live.
C21_LiveOnlyByCheck ==
  [][(isUsingFallback /\ ~isUsingFallback') => (CheckSucceeds /\ ~TurnReturns)]_vars

\* C21 witness: a game started in fallback mode is live after the probe of a
\* credential update
C21_Witness ==
  /\ ~isUsingFallback
  /\ \E j, k \in 1..Len(messages) :
       /\ j < k
       /\ messages[j] = Message("system", Str("RUNNING IN DEMO MODE..."))
       /\ messages[k] = Message("system", Str("CONNECTION SUCCESSFUL! AI NARRATOR ONLINE."))

\* the player selects the choice with this text
Selects(text) ==
  \E i \in 1..Len(currentChoices), reply \in PromptReplies :
    HandleChoice(i, reply) /\ currentChoices[i].text = Str(text)

\* the player action of the most recent turn: the one recorded last in the
\* history, and the empty action of the opening turn if none is recorded
MostRecentAction ==
  IF gameHistory = <<>> THEN Str("")
  ELSE Str(RemoveFirst(FirstLine(gameHistory[Len(gameHistory)]), "Player: "))

\* C22: whenever 'Try again' is selected, the turn it issues carries the
\* player action of the most recent turn, also when the history is empty.
C22_TryAgainReplays ==
  [][Selects("Try again") =>
       /\ TurnStarts
       /\ turns'[Len(turns')].action = MostRecentAction]_vars

\* a step of restartGame: the RESTART button or the 'Restart adventure' choice
Restarts == RestartGame \/ Selects("Restart adventure")

\* the session is empty and idle after the step
SessionEmptied ==
  /\ messages' = <<>>
  /\ gameHistory' = <<>>
  /\ currentChoices' = <<>>
  /\ storyTopic' = ""
  /\ ~isWaitingForResponse'

\* C23 (as stated): restart leaves the transcript, the history, the choice
\* set and the topic empty, awaitingResponse false and lastError absent, from
\* every reachable state.
C23_RestartClearsAll ==
  [][Restarts => (SessionEmptied /\ apiError' = Null)]_vars

\* C23 (amended): restart leaves the transcript, the history, the choice set
\* and the topic empty and awaitingResponse false, from every reachable state
\* including one with a turn in flight; lastError and the mode are kept as
\* they were.
C23_RestartKeepsError ==
  [][Restarts => /\ SessionEmptied
                 /\ apiError' = apiError
                 /\ isUsingFallback' = isUsingFallback]_vars

\* restarted while the opening turn was pending, with an error on record
C23_Witness ==
  /\ messages = <<>>
  /\ ~gameStarted
  /\ apiError # Null
  /\ \E i \in 1..Len(timers) : timers[i].stale

\* the player enters a new credential: the KEY button or 'Update API settings'
UpdatesKey(reply) ==
  /\ KeyEntered(reply)
  /\ \/ UpdateApiKey(reply)
     \/ \E i \in 1..Len(currentChoices) :
          HandleChoice(i, reply) /\ currentChoices[i].text = Str("Update API settings")

\* the update replaces the credential and starts a probe with it
UpdateStartsProbe ==
  \A reply \in PromptReplies :
    UpdatesKey(reply) =>
      /\ config'.apiKey = Trim(reply.s)
      /\ Len(probes') = Len(probes) + 1
      /\ probes'[Len(probes')].origin = "update"
      /\ probes'[Len(probes')].sent.apiKey = Trim(reply.s)

\* the probe of an update completes: live if the backend's own reply was
\* valid, and otherwise fallback with the failure message
UpdateProbeDecides ==
  \A i \in 1..Len(probes), outcome \in GameOutcomes, pick \in Picks :
    (ProbeDone(i, outcome, pick) /\ probes[i].origin = "update") =>
      IF OwnReplyValid(outcome)
      THEN ~isUsingFallback'
      ELSE /\ isUsingFallback'
           /\ Appended =
                <<Message("system", Str("CONNECTION FAILED. CHECK YOUR API KEY."))>>

\* C24: an update with a non-empty credential replaces the credential and
\* runs a probe with it; when that probe completes the mode is live if the
\* probe succeeded against the backend, and otherwise fallback with an
\* explanatory message recorded.
C24_UpdateProbeDecidesMode == [][UpdateStartsProbe /\ UpdateProbeDecides]_vars

\* the previous transcript is a prefix of the new one
TranscriptExtended ==
  /\ Len(messages') >= Len(messages)
  /\ SubSeq(messages', 1, Len(messages)) = messages

\* C25: the transcript is append-only: every step other than a restart
\* leaves the previous transcript as a prefix of the new one, and a restart
\* empties it.
C25_TranscriptAppendOnly ==
  [][IF Restarts THEN messages' = <<>> ELSE TranscriptExtended]_vars

\* a turn was answered and the player's next action is echoed after the answer
C25_Witness ==
  \E j, k \in 1..Len(messages) :
    /\ j < k
    /\ messages[j].type = "narrator"
    /\ messages[k].type = "user"

\* C26: in every reachable state, awaitingResponse = true implies that the
\* current choice set is empty.
C26_AwaitingMeansNoChoices == isWaitingForResponse => currentChoices = <<>>

\* a second turn is awaited after the first one published its choices
C26_Witness ==
  /\ isWaitingForResponse
  /\ \E j \in 1..Len(messages) : messages[j].type = "narrator"

\* the texts handleChoice treats as recovery actions whatever the history
SpecialTexts ==
  {"Restart adventure", "Update API settings", "Continue with demo mode",
   "Check connection"}

\* the step starts a normal turn for this choice text
NormalTurnFor(text) ==
  /\ TurnStarts
  /\ turns'[Len(turns')].action = text

\* what selecting the special choice i does, reply being the prompt's answer
SpecialAction(i, reply) ==
  LET text == currentChoices[i].text
  IN CASE text = Str("Restart adventure") -> SessionEmptied /\ ~gameStarted'
       [] text = Str("Update API settings") ->
            IF KeyEntered(reply)
            THEN /\ config'.apiKey = Trim(reply.s)
                 /\ Len(probes') = Len(probes) + 1
                 /\ probes'[Len(probes')].origin = "update"
                 /\ ~TurnStarts
            ELSE UNCHANGED vars
       [] text = Str("Continue with demo mode") ->
            /\ isUsingFallback'
            /\ NormalTurnFor(Str("continue in demo mode"))
       [] text = Str("Check connection") ->
            /\ Len(probes') = Len(probes) + 1
            /\ probes'[Len(probes')].origin = "check"
            /\ ~TurnStarts

\* C27: selecting a choice whose text is 'Restart adventure', 'Update API
\* settings', 'Continue with demo mode' or 'Check connection' triggers the
\* corresponding special action and not a normal turn, wherever the choice
\* came from.
C27_SpecialsKeyedOnText ==
  [][\A i \in 1..Len(currentChoices), reply \in PromptReplies :
       (HandleChoice(i, reply) /\ currentChoices[i].text \in {Str(t) : t \in SpecialTexts}) =>
         /\ SpecialAction(i, reply)
         /\ ~NormalTurnFor(currentChoices[i].text)]_vars

\* 'Check connection' was selected from the choices of a backend payload:
\* the recovery menu of the catch block does not offer it
C27_Witness ==
  /\ \E i \in 1..Len(probes) : probes[i].origin = "check"
  /\ \E j \in 1..Len(messages) : messages[j] = Message("narrator", Str("Alarms shriek."))
  /\ OfType(messages, "error") = {}

\* the story the returning turn adopted: the content of its narrator message
AdoptedStory == Appended[1].content

\* the text contains one of the two marker phrases
HasMarker(story) ==
  /\ story.t = "str"
  /\ \E marker \in {"offline mode", "fallback"} :
       \E k \in 1..Len(story.s) :
         k + Len(marker) - 1 <= Len(story.s)
         /\ SubSeq(story.s, k, k + Len(marker) - 1) = marker

\* C28: a turn that resolves with a story containing 'offline mode' or
\* 'fallback' sets the mode to fallback whatever it was before; a turn whose
\* story contains neither leaves the mode unchanged.
C28_MarkerSetsFallback ==
  [][TurnReturns =>
       /\ Appended # <<>>
       /\ Appended[1].type = "narrator"
       /\ IF HasMarker(AdoptedStory)
          THEN isUsingFallback'
          ELSE isUsingFallback' = isUsingFallback]_vars

\* a session that started live is in fallback mode after the bunker story
C28_Witness ==
  /\ isUsingFallback
  /\ \E j, k \in 1..Len(messages) :
       /\ j < k
       /\ messages[j] = Message("system", Str("CONNECTING TO AI NARRATOR..."))
       /\ messages[k] = Message("narrator", Str("You find the fallback bunker."))

====
